---- MODULE Spec2Model ----
(***************************************************************************)
(* gdsii_to_gerber (src/src/main.rs): main, Pattern::from_gds_struct,      *)
(* Pattern::write_gerber, coord_from_gds and the Point/Region/Pattern      *)
(* arithmetic, as a state machine.                                         *)
(*                                                                         *)
(* The recursion of from_gds_struct is an explicit call stack: one frame   *)
(* per active call, holding the call's parameters (name, layer), the       *)
(* position of its `for elem in &struc.elems` loop and its local           *)
(* `regions` vector.  write_gerber is a function of the Pattern and the    *)
(* library units: the command sequence it has serialized when it stops,    *)
(* and how it stops.                                                       *)
(***************************************************************************)
EXTENDS Integers, Sequences, FiniteSets, TLC

VARIABLES
    lib,              \* the GdsLibrary: [structs, units]; read-only
    cell,             \* args.cell
    layers,           \* what is left of args.layers
    layer,            \* the loop variable of main
    overflow_checks,  \* build profile: does i32 `+` panic on overflow?
    pc,               \* where the process is, or how it ended
    stack,            \* active from_gds_struct calls, outermost first
    ret,              \* what the outermost from_gds_struct call returned
    files             \* the output files, by layer

vars == <<lib, cell, layers, layer, overflow_checks, pc, stack, ret, files>>

---------------------------------------------------------------------------
(* Bounds of the model *)

\* elements in the library, over all its structures
MaxElems == 3
\* call depth at which the thread's stack is exhausted
MaxDepth == 4
\* regions of a Pattern and points of a Region handed to write_gerber alone
MaxRegions == 2
MaxPoints == 2

---------------------------------------------------------------------------
(* i32 arithmetic: Point's fields are i32 (main.rs:133-136) *)

I32Max == 2147483647
I32Min == (-I32Max) - 1

\* `a + b` on i32 leaves the range
AddOverflows(a, b) ==
    IF b >= 0 THEN a > I32Max - b ELSE a < I32Min - b

\* `a + b` on i32 without overflow checks: two's complement wrap-around
I32Add(a, b) ==
    IF ~AddOverflows(a, b) THEN a + b
    ELSE IF b >= 0 THEN I32Min + ((a - (I32Max - b)) - 1)
    ELSE I32Max - (((I32Min - b) - a) - 1)

Pt(px, py) == [x |-> px, y |-> py]

\* impl Add for Point: field-wise i32 addition
PointAddXOnly(p, rhs) == [x |-> I32Add(p.x, rhs.x), y |-> p.y]
PointAdd(p, rhs) == [x |-> I32Add(p.x, rhs.x), y |-> I32Add(p.y, rhs.y)]

PointAddOverflows(p, rhs) ==
    AddOverflows(p.x, rhs.x) \/ AddOverflows(p.y, rhs.y)

\* impl AddAssign<Point> for Region: every point of the region
RegionAddAssign(r, rhs) == [j \in 1..Len(r) |-> PointAdd(r[j], rhs)]

\* impl Add<Point> for Pattern: every region of the pattern
PatternAdd(pat, rhs) == [k \in 1..Len(pat) |-> RegionAddAssign(pat[k], rhs)]

\* some `+` of Pattern::add overflows
PatternAddOverflows(pat, rhs) ==
    \E k \in 1..Len(pat) : \E j \in 1..Len(pat[k]) :
        PointAddOverflows(pat[k][j], rhs)

\* impl FromIterator for Region over b.xy.iter(): the vertices, verbatim
RegionFromIter(xy) == [j \in 1..Len(xy) |-> Pt(xy[j].x, xy[j].y)]

---------------------------------------------------------------------------
(* The library: gds21::GdsLibrary as the program reads it *)

Boundary(l, pts) == [kind |-> "GdsBoundary", layer |-> l, xy |-> pts]
StructRef(n, off) == [kind |-> "GdsStructRef", name |-> n, xy |-> off]
TextElem == [kind |-> "GdsTextElem"]
\* any other GdsElement variant (GdsPath, GdsArrayRef, GdsNode, GdsBox)
PathElem == [kind |-> "GdsPath"]

\* lib.structs.iter().find(|s| s.name == name): the first match, 0 for None
Find(l, n) ==
    IF \E s \in 1..Len(l.structs) : l.structs[s].name = n
    THEN CHOOSE s \in 1..Len(l.structs) :
            /\ l.structs[s].name = n
            /\ \A t \in 1..(s - 1) : l.structs[t].name # n
    ELSE 0

Elems(l, n) == l.structs[Find(l, n)].elems

---------------------------------------------------------------------------
(* Inputs *)

Layers == {1, 2}

\* a closed outline as GDSII stores it (first vertex repeated), a vertex at
\* the edge of i32 on the other layer, and a boundary without vertices
Bnd1 == Boundary(1, <<Pt(0, 0), Pt(5, 7), Pt(0, 0)>>)
Bnd2 == Boundary(2, <<Pt(I32Max, -3)>>)
BndE == Boundary(1, <<>>)

RefB == StructRef("B", Pt(1, 10))
RefC == StructRef("C", Pt(-2, 100))
\* "D" is never a structure of the library
RefD == StructRef("D", Pt(0, 0))

ElemSet == {Bnd1, Bnd2, BndE, RefB, RefC, RefD, TextElem, PathElem}

\* units is the exponent e of lib.units.db_unit() = 10^e metres
Library(ea, eb, ec, u) ==
    [structs |-> <<[name |-> "A", elems |-> ea],
                   [name |-> "B", elems |-> eb],
                   [name |-> "C", elems |-> ec]>>,
     units |-> u]

---------------------------------------------------------------------------
(* State *)

NoRet == [tag |-> "None"]
NoFile == <<"absent">>

Frame(n, l) == [name |-> n, layer |-> l, i |-> 1, regions |-> <<>>]

Init ==
    /\ \E na \in 0..MaxElems : \E nb \in 0..(MaxElems - na) :
       \E nc \in 0..(MaxElems - na - nb) :
       \E ea \in [1..na -> ElemSet], eb \in [1..nb -> ElemSet],
          ec \in [1..nc -> ElemSet], u \in {-9} :
            lib = Library(ea, eb, ec, u)
    /\ cell \in {"A", "D"}
    /\ layers \in {<<1>>, <<2, 1>>}
    /\ layer = 0
    /\ overflow_checks \in BOOLEAN
    /\ pc = "main"
    /\ stack = <<>>
    /\ ret = NoRet
    /\ files = [l \in Layers |-> NoFile]

Top == stack[Len(stack)]
TopElem == Elems(lib, Top.name)[Top.i]
AtElem == pc = "flatten" /\ Top.i <= Len(Elems(lib, Top.name))

SetTop(f) == [stack EXCEPT ![Len(stack)] = f]

---------------------------------------------------------------------------
(* main *)

\* main.rs:30-31: the next layer; Pattern::from_gds_struct(&lib, &cell, layer)
\* is entered, and its find (main.rs:43-47) fails or gives the structure
MainNext ==
    /\ pc = "main"
    /\ layers # <<>>
    /\ layer' = Head(layers)
    /\ layers' = Tail(layers)
    /\ IF Find(lib, cell) = 0
       THEN /\ ret' = [tag |-> "Err"]
            /\ pc' = "PatternDoesNotExist"
            /\ stack' = <<>>
       ELSE /\ ret' = NoRet
            /\ pc' = "flatten"
            /\ stack' = <<Frame(cell, Head(layers))>>
    /\ UNCHANGED <<lib, cell, overflow_checks, files>>

\* main.rs:35: the loop is over, Ok(())
MainDone ==
    /\ pc = "main"
    /\ layers = <<>>
    /\ pc' = "Ok"
    /\ UNCHANGED <<lib, cell, layers, layer, overflow_checks, stack, ret, files>>

---------------------------------------------------------------------------
(* Pattern::from_gds_struct, one loop iteration per action *)

\* a guard that lets every boundary through
LayerMatchesAny(b, l) == TRUE

\* the match arm's guard `b.layer == layer`
LayerMatches(b, l) == b.layer = l

\* main.rs:51-54
StepBoundary ==
    /\ AtElem
    /\ TopElem.kind = "GdsBoundary"
    /\ stack' = SetTop([Top EXCEPT
            !.i = @ + 1,
            !.regions = IF LayerMatches(TopElem, Top.layer)
                        THEN Append(@, RegionFromIter(TopElem.xy))
                        ELSE @])
    /\ UNCHANGED <<lib, cell, layers, layer, overflow_checks, pc, ret, files>>

\* main.rs:59
StepText ==
    /\ AtElem
    /\ TopElem.kind = "GdsTextElem"
    /\ stack' = SetTop([Top EXCEPT !.i = @ + 1])
    /\ UNCHANGED <<lib, cell, layers, layer, overflow_checks, pc, ret, files>>

\* a `_ => {}` arm: the element is dropped and the walk goes on
StepOtherSkips ==
    /\ AtElem
    /\ TopElem.kind \notin {"GdsBoundary", "GdsStructRef", "GdsTextElem"}
    /\ stack' = SetTop([Top EXCEPT !.i = @ + 1])
    /\ UNCHANGED <<lib, cell, layers, layer, overflow_checks, pc, ret, files>>

\* main.rs:60: unimplemented!() panics
StepOther ==
    /\ AtElem
    /\ TopElem.kind \notin {"GdsBoundary", "GdsStructRef", "GdsTextElem"}
    /\ pc' = "panic_unimplemented"
    /\ stack' = stack
    /\ UNCHANGED <<lib, cell, layers, layer, overflow_checks, ret, files>>

\* the layer the recursive call is given
CalleeLayer(f) == f.layer

\* a walk that does not enter a structure it is already in
StepStructRefOnce ==
    /\ AtElem
    /\ TopElem.kind = "GdsStructRef"
    /\ IF \E d \in 1..Len(stack) : stack[d].name = TopElem.name
       THEN /\ pc' = "flatten"
            /\ stack' = SetTop([Top EXCEPT !.i = @ + 1])
       ELSE IF Len(stack) >= MaxDepth
       THEN /\ pc' = "stack_overflow"
            /\ stack' = stack
       ELSE IF Find(lib, TopElem.name) = 0
       THEN /\ pc' = "unwind"
            /\ stack' = stack
       ELSE /\ pc' = "flatten"
            /\ stack' = Append(stack, Frame(TopElem.name, CalleeLayer(Top)))
    /\ UNCHANGED <<lib, cell, layers, layer, overflow_checks, ret, files>>

\* a walk that passes over a reference to an absent structure
StepStructRefSkipsAbsent ==
    /\ AtElem
    /\ TopElem.kind = "GdsStructRef"
    /\ IF Len(stack) >= MaxDepth
       THEN /\ pc' = "stack_overflow"
            /\ stack' = stack
       ELSE IF Find(lib, TopElem.name) = 0
       THEN /\ pc' = "flatten"
            /\ stack' = SetTop([Top EXCEPT !.i = @ + 1])
       ELSE /\ pc' = "flatten"
            /\ stack' = Append(stack, Frame(TopElem.name, CalleeLayer(Top)))
    /\ UNCHANGED <<lib, cell, layers, layer, overflow_checks, ret, files>>

\* main.rs:55-56: the recursive call is entered; its find fails (the callee
\* returns Err into the caller's `?`), or a frame is pushed, or the stack of
\* the thread is exhausted
StepStructRef ==
    /\ AtElem
    /\ TopElem.kind = "GdsStructRef"
    /\ IF Len(stack) >= MaxDepth
       THEN /\ pc' = "stack_overflow"
            /\ stack' = stack
       ELSE IF Find(lib, TopElem.name) = 0
       THEN /\ pc' = "unwind"
            /\ stack' = stack
       ELSE /\ pc' = "flatten"
            /\ stack' = Append(stack, Frame(TopElem.name, CalleeLayer(Top)))
    /\ UNCHANGED <<lib, cell, layers, layer, overflow_checks, ret, files>>

\* an error that is swallowed by the call that receives it, which returns
\* what it has collected
UnwindKeepsPartial ==
    /\ pc = "unwind"
    /\ IF Len(stack) = 1
       THEN /\ ret' = [tag |-> "Ok", pat |-> Top.regions]
            /\ pc' = "create"
            /\ stack' = <<>>
       ELSE /\ ret' = ret
            /\ pc' = "flatten"
            /\ stack' = Append(SubSeq(stack, 1, Len(stack) - 2),
                    [stack[Len(stack) - 1] EXCEPT
                        !.i = @ + 1,
                        !.regions = @ \o Top.regions])
    /\ UNCHANGED <<lib, cell, layers, layer, overflow_checks, files>>

\* main.rs:56: `?` returns the Err from the frame that received it; the
\* frame and its regions are dropped
Unwind ==
    /\ pc = "unwind"
    /\ stack' = SubSeq(stack, 1, Len(stack) - 1)
    /\ IF Len(stack) = 1
       THEN /\ ret' = [tag |-> "Err"]
            /\ pc' = "PatternDoesNotExist"
       ELSE /\ ret' = ret
            /\ pc' = "unwind"
    /\ UNCHANGED <<lib, cell, layers, layer, overflow_checks, files>>

\* an offset added to everything the caller holds
ExtendShiftsAll(regions, pat, xy) == PatternAdd(regions \o pat, xy)

\* main.rs:56-57: what the caller's regions become when the callee returned
\* Ok(pat): pat + xy, appended
Extend(regions, pat, xy) == regions \o PatternAdd(pat, xy)

\* main.rs:63: Ok(Self(regions)), to main or to the caller's StructRef arm
Return ==
    /\ pc = "flatten"
    /\ Top.i > Len(Elems(lib, Top.name))
    /\ IF Len(stack) = 1
       THEN /\ ret' = [tag |-> "Ok", pat |-> Top.regions]
            /\ pc' = "create"
            /\ stack' = <<>>
       ELSE LET caller == stack[Len(stack) - 1]
                ref == Elems(lib, caller.name)[caller.i]
            IN  /\ ret' = ret
                /\ IF overflow_checks /\ PatternAddOverflows(Top.regions, ref.xy)
                   THEN /\ pc' = "panic_overflow"
                        /\ stack' = stack
                   ELSE /\ pc' = "flatten"
                        /\ stack' = Append(SubSeq(stack, 1, Len(stack) - 2),
                                [caller EXCEPT
                                    !.i = @ + 1,
                                    !.regions = Extend(@, Top.regions, ref.xy)])
    /\ UNCHANGED <<lib, cell, layers, layer, overflow_checks, files>>

---------------------------------------------------------------------------
(* coord_from_gds and the serialization of one coordinate *)

\* CoordinateFormat::new(6, 6)
IntegerDigits == 6
DecimalDigits == 6

RECURSIVE Pow10(_)
Pow10(n) == IF n = 0 THEN 1 ELSE 10 * Pow10(n - 1)

\* v db units are v * 10^u m = v * 10^(u+3) mm = v * 10^NanoExp(u) steps of
\* the last decimal digit of the format
NanoExp(u) == u + 3 + DecimalDigits

\* main.rs:100: try_from is Err (and unwrap panics) when the millimetre
\* value leaves the range of CoordinateNumber, an i64 count of 10^-6 mm.
\* An i32 times 10^9 or less stays in it; a non-zero one times 10^19 or
\* more does not (units with exponents in between are not drawn).
TryFromFails(v, u) == NanoExp(u) >= 19 /\ v # 0

\* serialize is Err when the value needs more than IntegerDigits digits
\* before the decimal point
TooLarge(v, u) ==
    LET d == (IntegerDigits + DecimalDigits) - NanoExp(u)
    IN  IF d > 9 THEN FALSE
        ELSE IF d <= 0 THEN v # 0
        ELSE v >= Pow10(d) \/ v <= -Pow10(d)

\* main.rs:96-101: the coordinate in the 6.6 fixed-point format: sign,
\* digits before and digits after the decimal point, in millimetres
CoordFromGds(v, u) ==
    LET p == Pow10(DecimalDigits - NanoExp(u))
        q == IF v >= 0 THEN v \div p ELSE -((v + (p - 1)) \div p)
        r == IF v >= 0 THEN v - p * q ELSE -(v + p * q)
    IN  IF v = 0 THEN [neg |-> FALSE, int |-> 0, frac |-> 0]
        ELSE [neg |-> v < 0, int |-> q, frac |-> r * Pow10(NanoExp(u))]

---------------------------------------------------------------------------
(* Pattern::write_gerber: the commands serialized to the sink, and how the *)
(* call ends.  The sink itself never fails.  A command counts as written   *)
(* when its serialize returned Ok.                                         *)

FS == <<"FS", IntegerDigits, DecimalDigits>>
MO == <<"MO", "MM">>
G36 == <<"G36">>
G37 == <<"G37">>
M02 == <<"M02">>

\* a serialization that does not look at the number of digits
OperationUnchecked(code, p, u) ==
    IF TryFromFails(p.x, u) \/ TryFromFails(p.y, u)
    THEN [res |-> "panic_unwrap"]
    ELSE [res |-> "Ok",
          cmd |-> <<code, CoordFromGds(p.x, u), CoordFromGds(p.y, u)>>]

\* main.rs:72-77 and 79-87: both coordinates are converted (x, then y), then
\* the operation is serialized
Operation(code, p, u) ==
    IF TryFromFails(p.x, u) \/ TryFromFails(p.y, u)
    THEN [res |-> "panic_unwrap"]
    ELSE IF TooLarge(p.x, u) \/ TooLarge(p.y, u)
    THEN [res |-> "GerberError"]
    ELSE [res |-> "Ok",
          cmd |-> <<code, CoordFromGds(p.x, u), CoordFromGds(p.y, u)>>]

\* main.rs:78-88: `for point in &region.0`, from point j on
RECURSIVE WritePoints(_, _, _, _)
WritePoints(region, j, u, out) ==
    IF j > Len(region) THEN [out |-> out, res |-> "Ok"]
    ELSE LET o == Operation("D01", region[j], u)
         IN  IF o.res # "Ok" THEN [out |-> out, res |-> o.res]
             ELSE WritePoints(region, j + 1, u, Append(out, o.cmd))

\* main.rs:71-92: `for region in &self.0`, from region k on, then the end
RECURSIVE WriteRegions(_, _, _, _)
WriteRegions(pat, k, u, out) ==
    IF k > Len(pat) THEN [out |-> out \o <<G37, M02>>, res |-> "Ok"]
    ELSE IF Len(pat[k]) = 0 THEN [out |-> out, res |-> "panic_index"]
    ELSE LET m == Operation("D02", pat[k][1], u)
         IN  IF m.res # "Ok" THEN [out |-> out, res |-> m.res]
             ELSE LET w == WritePoints(pat[k], 1, u, Append(out, m.cmd))
                  IN  IF w.res # "Ok" THEN w
                      ELSE WriteRegions(pat, k + 1, u, w.out)

\* the unit written before the coordinate format
WriteGerberUnitFirst(pat, u) == WriteRegions(pat, 1, u, <<MO, FS, G36>>)

\* main.rs:65-93
WriteGerber(pat, u) == WriteRegions(pat, 1, u, <<FS, MO, G36>>)

---------------------------------------------------------------------------
(* main, after from_gds_struct returned Ok *)

\* main.rs:32: File::create makes the file of this layer, empty
MainCreate ==
    /\ pc = "create"
    /\ files' = [files EXCEPT ![layer] = <<>>]
    /\ pc' = "write"
    /\ UNCHANGED <<lib, cell, layers, layer, overflow_checks, stack, ret>>

\* main.rs:33: pat.write_gerber(&mut w, &lib)?; the BufWriter is flushed
\* when it is dropped, on every way out
MainWrite ==
    /\ pc = "write"
    /\ LET w == WriteGerber(ret.pat, lib.units)
       IN  /\ files' = [files EXCEPT ![layer] = w.out]
           /\ pc' = IF w.res = "Ok" THEN "main" ELSE w.res
    /\ UNCHANGED <<lib, cell, layers, layer, overflow_checks, stack, ret>>

Next ==
    \/ MainNext
    \/ MainDone
    \/ StepBoundary
    \/ StepText
    \/ StepOther
    \/ StepStructRef
    \/ Unwind
    \/ Return
    \/ MainCreate
    \/ MainWrite

Spec == Init /\ [][Next]_vars

\* the process is one thread that runs until it ends
FairSpec == Spec /\ WF_vars(Next)

---------------------------------------------------------------------------
(* write_gerber alone: any Pattern, any units *)

EmitPoints == {Pt(0, 0), Pt(5, -7), Pt(2000005, -1)}
Regions == UNION {[1..n -> EmitPoints] : n \in 0..MaxPoints}
Patterns == UNION {[1..n -> Regions] : n \in 0..MaxRegions}

InitEmit ==
    /\ lib \in {Library(<<>>, <<>>, <<>>, u) : u \in {-9, -6, -3, 10}}
    /\ cell = "A"
    /\ layers = <<>>
    /\ layer = 1
    /\ overflow_checks = FALSE
    /\ pc = "write"
    /\ stack = <<>>
    /\ ret \in {[tag |-> "Ok", pat |-> p] : p \in Patterns}
    /\ files = [l \in Layers |-> IF l = 1 THEN <<>> ELSE NoFile]

NextEmit ==
    \/ MainWrite
    \/ MainDone

SpecEmit == InitEmit /\ [][NextEmit]_vars
---------------------------------------------------------------------------
(* What the library says, independently of the walk *)

Supported == {"GdsBoundary", "GdsStructRef", "GdsTextElem"}

\* the names the StructRefs of structure n give
RefNames(l, n) ==
    IF Find(l, n) = 0 THEN {}
    ELSE {Elems(l, n)[i].name :
            i \in {j \in 1..Len(Elems(l, n)) : Elems(l, n)[j].kind = "GdsStructRef"}}

RECURSIVE Closure(_, _, _)
Closure(l, S, k) ==
    IF k = 0 THEN S
    ELSE Closure(l, S \cup UNION {RefNames(l, n) : n \in S}, k - 1)

\* the names reachable from n through StructRefs, n included
Reachable(l, n) == Closure(l, {n}, Len(l.structs) + 1)

\* some reachable structure reaches itself
ReachableCycle(l, n) ==
    \E m \in Reachable(l, n) : m \in Closure(l, RefNames(l, m), Len(l.structs) + 1)

AllResolve(l, n) == \A m \in Reachable(l, n) : Find(l, m) # 0

OnlySupported(l, n) ==
    \A m \in Reachable(l, n) : Find(l, m) # 0 =>
        \A i \in 1..Len(Elems(l, m)) : Elems(l, m)[i].kind \in Supported

\* The boundaries met depth first, in element order, from element i of
\* structure n on: one per boundary per reference path, each with its layer,
\* its vertices and the offsets of the StructRefs on the path (outermost
\* first).  fuel bounds the nesting; an acyclic library nests no deeper than
\* it has structures.
RECURSIVE InstancesFrom(_, _, _, _, _)
InstancesFrom(l, n, i, path, fuel) ==
    IF fuel = 0 \/ Find(l, n) = 0 THEN <<>>
    ELSE IF i > Len(Elems(l, n)) THEN <<>>
    ELSE LET e == Elems(l, n)[i]
             here == IF e.kind = "GdsBoundary"
                     THEN <<[layer |-> e.layer, xy |-> e.xy, path |-> path]>>
                     ELSE IF e.kind = "GdsStructRef"
                     THEN InstancesFrom(l, e.name, 1, Append(path, e.xy), fuel - 1)
                     ELSE <<>>
         IN  here \o InstancesFrom(l, n, i + 1, path, fuel)

Instances(l, n) == InstancesFrom(l, n, 1, <<>>, Len(l.structs))

InstancesOnLayer(l, n, lay) ==
    SelectSeq(Instances(l, n), LAMBDA inst : inst.layer = lay)

\* the sum of the offsets of a path (the offsets drawn are small)
RECURSIVE SumFrom(_, _)
SumFrom(path, k) ==
    IF k > Len(path) THEN Pt(0, 0)
    ELSE LET r == SumFrom(path, k + 1)
         IN  Pt(path[k].x + r.x, path[k].y + r.y)

\* q is p shifted by the sum of the offsets of the path, as integers
IsShiftedBySum(q, p, path) ==
    LET s == SumFrom(path, 1)
    IN  /\ ~PointAddOverflows(p, s)
        /\ q = Pt(p.x + s.x, p.y + s.y)

\* adding the offsets of the path to p one by one, innermost first, never
\* leaves i32
RECURSIVE StaysInRange(_, _, _)
StaysInRange(p, path, k) ==
    \/ k = 0
    \/ /\ ~PointAddOverflows(p, path[k])
       /\ StaysInRange(Pt(p.x + path[k].x, p.y + path[k].y), path, k - 1)

NoOverflow(l, n, lay) ==
    LET insts == InstancesOnLayer(l, n, lay)
    IN  \A k \in 1..Len(insts) : \A j \in 1..Len(insts[k].xy) :
            StaysInRange(insts[k].xy[j], insts[k].path, Len(insts[k].path))

\* p with the offsets of the path added in i32, innermost first
RECURSIVE ShiftI32(_, _, _)
ShiftI32(p, path, k) ==
    IF k = 0 THEN p
    ELSE ShiftI32(Pt(I32Add(p.x, path[k].x), I32Add(p.y, path[k].y)), path, k - 1)

\* the outermost from_gds_struct call has just returned Ok(pat) to main
Returned == pc = "create" /\ ret.tag = "Ok"

FlattenFailed ==
    pc \in {"unwind", "PatternDoesNotExist", "panic_unimplemented",
            "panic_overflow", "stack_overflow"}

---------------------------------------------------------------------------
(* C1 *)

WellFormed(l, n) ==
    /\ ~ReachableCycle(l, n)
    /\ AllResolve(l, n)
    /\ OnlySupported(l, n)

\* pat is, region by region and point by point, the instances shifted by
\* the sums of their paths' offsets
IsFlattening(pat, insts) ==
    /\ Len(pat) = Len(insts)
    /\ \A k \in 1..Len(insts) :
        /\ Len(pat[k]) = Len(insts[k].xy)
        /\ \A j \in 1..Len(insts[k].xy) :
            IsShiftedBySum(pat[k][j], insts[k].xy[j], insts[k].path)

\* C1 as stated: on an acyclic library whose references all resolve and
\* whose elements are Boundary, StructRef or Text, from_gds_struct does not
\* fail, and the Pattern it returns is the depth-first sequence of the
\* boundaries on the layer, one per reference path, vertices in order, each
\* shifted by the sum of the offsets on its path.
C1_AsStated ==
    ((FlattenFailed \/ Returned) /\ WellFormed(lib, cell)) =>
        /\ ~FlattenFailed
        /\ IsFlattening(ret.pat, InstancesOnLayer(lib, cell, layer))

\* C1, amended: the same, provided no addition of an offset to a point
\* (innermost offset first) leaves the range of i32.
C1_FlattenIsPathSum ==
    ((FlattenFailed \/ Returned) /\ WellFormed(lib, cell)
        /\ NoOverflow(lib, cell, layer)) =>
        /\ ~FlattenFailed
        /\ IsFlattening(ret.pat, InstancesOnLayer(lib, cell, layer))

\* a Pattern was returned that holds a region of several vertices reached
\* through two nested StructRefs, after a region of the structure itself
C1_Witness ==
    /\ Returned
    /\ WellFormed(lib, cell)
    /\ NoOverflow(lib, cell, layer)
    /\ \E k \in 1..Len(ret.pat) :
        /\ Len(InstancesOnLayer(lib, cell, layer)[k].path) = 2
        /\ Len(ret.pat[k]) >= 2

---------------------------------------------------------------------------
(* C2 *)

\* C2: a returned Pattern holds exactly the boundaries whose layer is the
\* query layer, of the requested structure and of every structure reached
\* through StructRefs, in order; boundaries of other layers, and Text,
\* contribute nothing, whatever the layer.
C2_LayerFilter ==
    Returned =>
        LET all == Instances(lib, cell)
            mine == SelectSeq(all, LAMBDA inst : inst.layer = layer)
        IN  /\ Len(ret.pat) = Len(mine)
            /\ \A k \in 1..Len(mine) :
                ret.pat[k] = [j \in 1..Len(mine[k].xy) |->
                    ShiftI32(mine[k].xy[j], mine[k].path, Len(mine[k].path))]

\* the second of two queries on the same library: the first, on the other
\* layer, wrote its file; boundaries of both layers are met, through a
\* StructRef too, and the Pattern holds those of the query layer only
C2_Witness ==
    /\ Returned
    /\ layer = 1
    /\ files[2] # NoFile
    /\ \E k \in 1..Len(Instances(lib, cell)) :
        /\ Instances(lib, cell)[k].layer = 2
        /\ Instances(lib, cell)[k].path # <<>>
    /\ Len(ret.pat) >= 1
    /\ Len(ret.pat) < Len(Instances(lib, cell))

---------------------------------------------------------------------------
(* C3 *)

\* a find is about to return None: at the top level, or in a recursive call
FindFails ==
    \/ pc = "main" /\ layers # <<>> /\ Find(lib, cell) = 0
    \/ /\ AtElem
       /\ TopElem.kind = "GdsStructRef"
       /\ Len(stack) < MaxDepth
       /\ Find(lib, TopElem.name) = 0

\* C3: when a find fails, at the top level or in a recursive call, the
\* error goes up through every enclosing call, one frame at a time, and
\* ends main: no Pattern is returned, and the file of the layer is neither
\* created nor written.
C3_NotFoundStep ==
    /\ FindFails => pc' \in {"unwind", "PatternDoesNotExist"}
    /\ pc = "unwind" =>
        /\ pc' \in {"unwind", "PatternDoesNotExist"}
        /\ Len(stack') = Len(stack) - 1
        /\ pc' = "unwind" <=> stack' # <<>>
    /\ pc' \in {"unwind", "PatternDoesNotExist"} =>
        /\ ret'.tag # "Ok"
        /\ files' = files
        /\ files'[layer'] = NoFile
    /\ pc' = "PatternDoesNotExist" => ret'.tag = "Err"
    /\ pc = "PatternDoesNotExist" => UNCHANGED vars

C3_NotFound == [][C3_NotFoundStep]_vars

\* the error is on its way up through two calls, the outer of which had
\* collected a Region before the failing reference
C3_Witness ==
    /\ pc = "unwind"
    /\ Len(stack) = 2
    /\ stack[1].regions # <<>>

---------------------------------------------------------------------------
(* C5 *)

\* C5 as stated: every Region of a returned Pattern has a point, so that
\* write_gerber's region.0[0] is valid.
C5_AsStated ==
    /\ Returned => \A k \in 1..Len(ret.pat) : Len(ret.pat[k]) >= 1
    /\ pc # "panic_index"

---------------------------------------------------------------------------
(* What write_gerber is to serialize, independently of how it does *)

\* the operations of a Pattern in order: per region a Move to its first
\* point, then an Interpolate to each of its points; a region without
\* points has no first point
RegionOps(r) ==
    IF r = <<>> THEN <<[code |-> "none"]>>
    ELSE <<[code |-> "D02", p |-> r[1]]>>
         \o [j \in 1..Len(r) |-> [code |-> "D01", p |-> r[j]]]

RECURSIVE PatternOps(_, _)
PatternOps(pat, k) ==
    IF k > Len(pat) THEN <<>>
    ELSE RegionOps(pat[k]) \o PatternOps(pat, k + 1)

Representable(v, u) == ~TryFromFails(v, u) /\ ~TooLarge(v, u)

OpRepresentable(op, u) ==
    op.code # "none" /\ Representable(op.p.x, u) /\ Representable(op.p.y, u)

Serialized(ops, u) ==
    [i \in 1..Len(ops) |->
        <<ops[i].code, CoordFromGds(ops[i].p.x, u), CoordFromGds(ops[i].p.y, u)>>]

RECURSIVE PointCount(_, _)
PointCount(pat, k) ==
    IF k > Len(pat) THEN 0 ELSE (1 + Len(pat[k])) + PointCount(pat, k + 1)

\* write_gerber has been called on ret.pat and is over
Written == pc \notin {"write"} /\ ret.tag = "Ok" /\ files[layer] # NoFile

---------------------------------------------------------------------------
(* C4 *)

\* C4: for a Pattern whose Regions all have a point and whose coordinates
\* are all representable, write_gerber succeeds and the sink holds exactly:
\* the coordinate format (6, 6), the unit millimetres, region mode on; per
\* Region, in order, a Move to its first point and an Interpolate to each
\* of its N points, the first included; region mode off, end of file:
\* 5 + the sum of (1 + N) commands.
C4_CommandSequence ==
    LET ops == PatternOps(ret.pat, 1)
    IN  (Written /\ \A i \in 1..Len(ops) : OpRepresentable(ops[i], lib.units)) =>
            /\ pc \in {"main", "Ok"}
            /\ files[layer] =
                <<(<<"FS", 6, 6>>), (<<"MO", "MM">>), (<<"G36">>)>>
                \o Serialized(ops, lib.units)
                \o <<(<<"G37">>), (<<"M02">>)>>
            /\ Len(files[layer]) = 5 + PointCount(ret.pat, 1)

\* two Regions of two points each were written, with a coordinate that has
\* digits on both sides of the decimal point
C4_Witness ==
    /\ Written
    /\ pc = "main"
    /\ Len(ret.pat) = 2
    /\ Len(ret.pat[1]) = 2
    /\ Len(ret.pat[2]) = 2
    /\ ret.pat[1][1] # ret.pat[1][2]
    /\ \E i \in 1..Len(files[layer]) :
        /\ files[layer][i][1] = "D01"
        /\ files[layer][i][2].int > 0
        /\ files[layer][i][2].frac > 0
    /\ Len(files[layer]) = 11

---------------------------------------------------------------------------
(* C7 *)

\* the first operation that is not representable, when no region without
\* points comes before it; 0 when there is none
FirstUnrepresentable(ops, u) ==
    IF \E i \in 1..Len(ops) :
            /\ ops[i].code # "none"
            /\ ~OpRepresentable(ops[i], u)
            /\ \A h \in 1..(i - 1) : OpRepresentable(ops[h], u)
    THEN CHOOSE i \in 1..Len(ops) :
            /\ ~OpRepresentable(ops[i], u)
            /\ \A h \in 1..(i - 1) : OpRepresentable(ops[h], u)
    ELSE 0

---------------------------------------------------------------------------
(* C6 *)

\* C6: an element that is no Boundary, StructRef or Text, once the walk is
\* at it (in the requested structure or a referenced one, on any layer),
\* ends the process in the unimplemented!() panic: no Pattern is returned,
\* no file of the layer is made, nothing runs afterwards.
C6_UnsupportedStep ==
    /\ (AtElem /\ TopElem.kind \notin Supported) => pc' = "panic_unimplemented"
    /\ pc' = "panic_unimplemented" =>
        /\ ret'.tag = "None"
        /\ files'[layer'] = NoFile
    /\ pc = "panic_unimplemented" => UNCHANGED vars

C6_UnsupportedIsFatal == [][C6_UnsupportedStep]_vars

\* the panic was raised in a referenced structure, on a layer no boundary
\* of the library is on... the first query being layer 1
C6_Witness ==
    /\ pc = "panic_unimplemented"
    /\ Len(stack) >= 2
    /\ layer = 1
    /\ stack[1].regions # <<>>

---------------------------------------------------------------------------
(* C8 *)

\* a structure is on the call stack twice: the walk is in a reference cycle
DupOnStack ==
    \E a \in 1..Len(stack) : \E b \in (a + 1)..Len(stack) :
        stack[a].name = stack[b].name

\* C8 as stated: when the structures reachable from the requested one
\* hold a reference cycle, from_gds_struct never returns, neither a Pattern
\* nor an error.
C8_AsStated == ret.tag # "None" => ~ReachableCycle(lib, cell)

\* C8, amended: once the walk has re-entered a structure that is still on
\* the call stack, the call never returns, neither a Pattern nor an error:
\* the structure stays on the stack twice and the walk goes on until the
\* stack is exhausted.  And with a reachable cycle no Pattern is returned
\* (an error may be: a reference to an absent structure met before the
\* cycle is entered).
C8_CycleStep ==
    /\ DupOnStack =>
        /\ DupOnStack'
        /\ pc' \in {"flatten", "stack_overflow"}
        /\ ret' = NoRet
    /\ (pc' = "create" /\ pc # "create") => ~ReachableCycle(lib, cell)

C8_CycleNeverReturns == [][C8_CycleStep]_vars

\* the stack is exhausted in a cycle through two structures
C8_Witness ==
    /\ pc = "stack_overflow"
    /\ DupOnStack
    /\ stack[Len(stack)].name # stack[Len(stack) - 1].name

---------------------------------------------------------------------------
(* C9 *)

IsPrefix(a, b) == Len(a) <= Len(b) /\ SubSeq(b, 1, Len(a)) = a

\* C9: the library is never changed; the Regions a call has collected are
\* never changed, only added to; and when a recursive call returns, what
\* is added to the caller's Regions is the returned Regions, as many and
\* as long, each point moved by the offset of the StructRef.
C9_FrameStep ==
    /\ lib' = lib
    /\ \A d \in 1..Len(stack') : d <= Len(stack) =>
        IsPrefix(stack[d].regions, stack'[d].regions)
    /\ (pc = "flatten" /\ pc' = "flatten" /\ Len(stack') < Len(stack)) =>
        LET c == Len(stack')
            xy == Elems(lib, stack[c].name)[stack[c].i].xy
            n == Len(stack[c].regions)
        IN  /\ Len(stack'[c].regions) = n + Len(Top.regions)
            /\ \A k \in 1..Len(Top.regions) :
                stack'[c].regions[n + k] =
                    [j \in 1..Len(Top.regions[k]) |->
                        Pt(I32Add(Top.regions[k][j].x, xy.x),
                           I32Add(Top.regions[k][j].y, xy.y))]

C9_OffsetIsConfined == [][C9_FrameStep]_vars

\* a call holds a Region of its own boundary, verbatim, followed by a
\* Region that came back, moved, from the StructRef after it
C9_Witness ==
    /\ pc = "flatten"
    /\ Len(stack) >= 1
    /\ Top.i = 3
    /\ Elems(lib, Top.name)[1].kind = "GdsBoundary"
    /\ Elems(lib, Top.name)[2].kind = "GdsStructRef"
    /\ Len(Top.regions) = 2
    /\ Top.regions[1] = RegionFromIter(Elems(lib, Top.name)[1].xy)
    /\ Len(Top.regions[2]) = 3
    /\ Top.regions[2] # Top.regions[1]

---------------------------------------------------------------------------
(* C10 *)

\* the Pattern a call on structure n returns when nothing fails, the
\* offsets added in i32
FlatI32(l, n, lay) ==
    LET insts == InstancesOnLayer(l, n, lay)
    IN  [k \in 1..Len(insts) |->
            [j \in 1..Len(insts[k].xy) |->
                ShiftI32(insts[k].xy[j], insts[k].path, Len(insts[k].path))]]

\* What each element does to a call, depth first in element order, from
\* element i of structure n on: "next" when the walk goes on, the failure
\* otherwise (for a StructRef, after what the referenced structure does,
\* the `+` of its offset).  oc: additions are overflow checked.
RECURSIVE EventsFrom(_, _, _, _, _, _)
EventsFrom(l, n, i, lay, oc, fuel) ==
    IF Find(l, n) = 0 THEN <<"PatternDoesNotExist">>
    ELSE IF fuel = 0 THEN <<"stack_overflow">>
    ELSE IF i > Len(Elems(l, n)) THEN <<>>
    ELSE LET e == Elems(l, n)[i]
             here ==
                IF e.kind \in {"GdsBoundary", "GdsTextElem"} THEN <<"next">>
                ELSE IF e.kind = "GdsStructRef"
                THEN EventsFrom(l, e.name, 1, lay, oc, fuel - 1)
                     \o <<IF oc /\ PatternAddOverflows(FlatI32(l, e.name, lay), e.xy)
                          THEN "panic_overflow" ELSE "next">>
                ELSE <<"panic_unimplemented">>
         IN  here \o EventsFrom(l, n, i + 1, lay, oc, fuel)

FirstFailure(evs) ==
    IF \A i \in 1..Len(evs) : evs[i] = "next" THEN "Ok"
    ELSE evs[CHOOSE i \in 1..Len(evs) :
                /\ evs[i] # "next"
                /\ \A h \in 1..(i - 1) : evs[h] = "next"]

\* the number of distinct structures of the library
NumStructs(l) == Cardinality({l.structs[s].name : s \in 1..Len(l.structs)})

\* the outermost call is over
Finished ==
    \/ Returned
    \/ pc \in {"PatternDoesNotExist", "panic_unimplemented", "panic_overflow",
               "stack_overflow"}

Outcome == IF Returned THEN "Ok" ELSE pc

\* C10 as stated: on a library acyclic from the requested structure, the
\* call finishes with one of three outcomes: a Pattern, PatternDoesNotExist
\* or the unsupported-element abort.
C10_AsStated ==
    (Finished /\ ~ReachableCycle(lib, cell)) =>
        Outcome \in {"Ok", "PatternDoesNotExist", "panic_unimplemented"}

\* C10, amended, what holds at every moment: on a library acyclic from the
\* requested structure the recursion is never deeper than the library has
\* distinct structures, the stack is never exhausted, and the call ends
\* the way the first failing element in depth-first element order says: a
\* Pattern when none fails, PatternDoesNotExist, the unsupported-element
\* abort, or, where additions are overflow checked, the overflow panic of
\* an offset addition.
C10_OutcomeIsFirstFailure ==
    ((Finished \/ Len(stack) > NumStructs(lib)) /\ ~ReachableCycle(lib, cell)) =>
        /\ Len(stack) <= NumStructs(lib)
        /\ pc # "stack_overflow"
        /\ Outcome = FirstFailure(
                EventsFrom(lib, cell, 1, layer, overflow_checks, NumStructs(lib)))

\* C10, amended: the above, and a call on a library acyclic from the
\* requested structure eventually finishes.
C10_FinishesWithFirstFailure ==
    /\ []C10_OutcomeIsFirstFailure
    /\ (pc = "flatten" /\ ~ReachableCycle(lib, cell))
            ~> (pc \notin {"flatten", "unwind"})

\* a call on an acyclic library is over, ended by a reference to an absent
\* structure that has elements that did not fail before it and elements
\* that were never reached after it
C10_Witness ==
    /\ pc = "PatternDoesNotExist"
    /\ ~ReachableCycle(lib, cell)
    /\ layer = 1
    /\ LET evs == EventsFrom(lib, cell, 1, layer, overflow_checks, NumStructs(lib))
       IN  /\ Len(evs) >= 3
           /\ evs[1] = "next"
           /\ evs[Len(evs)] = "next"
           /\ FirstFailure(evs) = "PatternDoesNotExist"
====
